---- MODULE Spec2Model ----
(***************************************************************************)
(* A model of voodoo's device memory core (src/src/device_memory.rs):      *)
(* DeviceMemoryBuilder, DeviceMemory (an Arc<Inner>), Inner's Drop and     *)
(* MemoryMapping.  The Device (allocate_memory / free_memory / map_memory  *)
(* / unmap_memory) is an external collaborator; it is modelled as a        *)
(* recording double whose answers are nondeterministic.                    *)
(*                                                                         *)
(* Integer widths are scaled down: a u64 has U64Bits bits and the          *)
(* platform's usize has wordBits bits, either NarrowBits (a target whose   *)
(* usize is narrower than u64) or U64Bits (a 64-bit target).               *)
(***************************************************************************)
EXTENDS Integers, FiniteSets, Sequences, TLC

\* ------------------------------------------------------------------ bounds
MaxBlocks == 2          \* successful builds (Arc<Inner> allocations)
MaxOwners == 2          \* DeviceMemory values alive at once
MaxViews  == 2          \* MemoryMapping values alive at once
MaxCalls == 2           \* Device.map / Device.unmap calls counted per block
NarrowBits == 3         \* scaled width of usize on a narrow target
U64Bits == 5            \* scaled width of u64

Threads == {"t1", "t2"}
Devices == {"devA", "devB"}

NullHandle == 0
Handles == {1, 2}       \* the handle values a Device hands out

Blocks == 1..MaxBlocks
OwnerIds == 1..MaxOwners
ViewIds == 1..MaxViews

Pow2(n) == 2 ^ n
U64Mod == Pow2(U64Bits)

\* inputs the callers draw from
AllocSizes == {0, 8}
MemBytes == 0..7                 \* the byte offsets of an 8 byte allocation
PatternValues == {1, 258}        \* element values written through a view
TypeIndexes == {0, 1}
Offsets == {0, 2}
MapSizes == {7, U64Mod - 1}          \* U64Mod - 1 is u64::MAX
FlagValues == {0, 1}
ElemSizes == {0, 4}              \* mem::size_of::<T>(); 0 is a zero-sized T
WordWidths == {NarrowBits, U64Bits}

VARIABLES
    wordBits,   \* width of usize on the target the crate was built for
    builder,    \* DeviceMemoryBuilder.allocate_info
    built,      \* whether build has been called on this builder
    written,    \* the most recent fill of a view: where, and with what
    inner,      \* Arc<Inner> allocations: fields, strong count, phase
    owner,      \* DeviceMemory values: the Arc<Inner> each points to
    view,       \* MemoryMapping values
    dev,        \* the Devices: allocated and mapped handles, references
    callerDev,  \* whether the caller still holds its own Device reference
    freed,      \* the Device double's count of free calls, per Inner
    calls,      \* the Device double's counts of map and unmap calls, if kept
    issued,     \* the Device calls the most recent step issued, in order
    ret,        \* the operation of the most recent step and what it returned
    pc,         \* per thread: running, or inside the drop of an Inner
    cur,        \* per thread: the Inner being dropped, or 0
    panicked    \* threads that panicked (they only unwind)

vars == <<wordBits, builder, built, written, inner, owner, view, dev, callerDev, freed,
          calls, issued, ret, pc, cur, panicked>>

\* ------------------------------------------------------------------ values
NoInner == [handle |-> NullHandle, device |-> "none", allocation_size |-> 0,
            memory_type_index |-> 0, strong |-> 0, phase |-> "none"]
NoOwner == [blk |-> 0]
NoView == [ptr |-> 0, len |-> 0, mem_handle |-> NullHandle, borrow |-> 0,
           elem |-> 0]
NoWrite == [blk |-> 0, ptr |-> 0, len |-> 0, elem |-> 0, value |-> 0,
            unmapped |-> FALSE]

\* a finished operation: its name, the kind of value it returned to its
\* caller and, for map, unmap and their pointer-level variants, the
\* DeviceMemory it was called on and its arguments
Ret(op, val, own, args) == [op |-> op, val |-> val, own |-> own, args |-> args]

DefaultAllocateInfo == [allocation_size |-> 0, memory_type_index |-> 0]

IsOwner(o) == owner[o] # NoOwner
IsView(v) == view[v] # NoView
BlockOf(o) == owner[o].blk
NeverBorrowed(o) == FALSE
Borrowed(o) == \E v \in ViewIds : IsView(v) /\ view[v].borrow = o
Running(t) == pc[t] = "run" /\ t \notin panicked

FreeOwnerId == CHOOSE o \in OwnerIds : ~IsOwner(o) /\ \A p \in OwnerIds : p < o => IsOwner(p)
FreeViewId == CHOOSE v \in ViewIds : ~IsView(v) /\ \A p \in ViewIds : p < v => IsView(p)
FreeBlock == CHOOSE b \in Blocks : inner[b].phase = "none" /\ \A p \in Blocks : p < b => inner[p].phase # "none"

\* the bytes of a Device allocation nothing has been written to
ZeroMemory == [a \in MemBytes |-> 0]

\* a Device double that keeps no count of its map and unmap calls, and one
\* that counts the successful ones per block
NoCalls == [on |-> FALSE, map |-> [b \in Blocks |-> 0],
            unmap |-> [b \in Blocks |-> 0]]
CountedCalls == [NoCalls EXCEPT !.on = TRUE]
Counted(op, b) == IF calls.on THEN [calls EXCEPT ![op][b] = @ + 1] ELSE calls
CallsLeft(op, b) == calls.on => calls[op][b] < MaxCalls

\* the state before any operation, on a target whose usize has one of the
\* widths W, with the Device double c
InitWith(W, c) ==
    /\ wordBits \in W
    /\ builder = DefaultAllocateInfo
    /\ built = FALSE
    /\ written = NoWrite
    /\ inner = [b \in Blocks |-> NoInner]
    /\ owner = [o \in OwnerIds |-> NoOwner]
    /\ view = [v \in ViewIds |-> NoView]
    /\ dev = [d \in Devices |->
                [allocated |-> {}, mapped |-> {}, refs |-> 1, torn |-> FALSE,
                 memory |-> [h \in Handles |-> ZeroMemory]]]
    /\ callerDev = [d \in Devices |-> TRUE]
    /\ freed = [b \in Blocks |-> 0]
    /\ calls = c
    /\ issued = <<>>
    /\ ret = Ret("none", "none", 0, <<>>)
    /\ pc = [t \in Threads |-> "run"]
    /\ cur = [t \in Threads |-> 0]
    /\ panicked = {}

InitFor(W) == InitWith(W, NoCalls)

Init == InitFor(WordWidths)

\* ------------------------------------------------------- the Device double
\* Device::allocate_memory succeeded with handle h
DeviceAllocated(d, h) == [dev EXCEPT ![d].allocated = @ \cup {h}]
\* Device::free_memory(h): the allocation, and any mapping of it, is gone
DeviceFreed(d, h) ==
    [dev EXCEPT ![d].allocated = @ \ {h}, ![d].mapped = @ \ {h},
                ![d].memory[h] = ZeroMemory]
\* Device::map_memory(h, ..) succeeded
DeviceMapped(d, h) == [dev EXCEPT ![d].mapped = @ \cup {h}]
\* Device::unmap_memory(h)
DeviceUnmapped(d, h) == [dev EXCEPT ![d].mapped = @ \ {h}]
\* one strong Device reference is released; the last one tears the Device down
DeviceRefDropped(dv, d) ==
    [dv EXCEPT ![d].refs = @ - 1, ![d].torn = (dv[d].refs = 1)]
\* the host pointer Device::map_memory answers for a region
DevicePtr(offset_bytes) == offset_bytes + 1
\* the byte of the allocation a host pointer into a mapped region refers to
DeviceByte(ptr) == ptr - 1

\* a recorded Device call: the operation, the Device, the handle passed (or
\* answered, for allocate), the arguments a and b (size and type index for
\* allocate, offset and size for map), the flags, and whether it succeeded
Call(op, d, h, a, b, flags, ok) ==
    [op |-> op, dev |-> d, handle |-> h, a |-> a, b |-> b, flags |-> flags,
     ok |-> ok, reason |-> "none"]

\* the reasons a Device gives for refusing an allocation
AllocErrors == {"OutOfHostMemory", "OutOfDeviceMemory", "TooManyObjects"}
\* a call the Device refused for the given reason
Refused(call, reason) == [call EXCEPT !.ok = FALSE, !.reason = reason]

\* ------------------------------------------------------------ the builder
\* DeviceMemoryBuilder::new
BuilderNewKeeps ==
    /\ UNCHANGED <<builder, built>>
    /\ issued' = <<>>
    /\ ret' = Ret("builder", "builder", 0, <<>>)
    /\ UNCHANGED <<wordBits, calls, written, inner, owner, view, dev, callerDev, freed, pc, cur,
                   panicked>>
BuilderNew ==
    /\ builder' = DefaultAllocateInfo
    /\ built' = FALSE
    /\ issued' = <<>>
    /\ ret' = Ret("builder", "builder", 0, <<>>)
    /\ UNCHANGED <<wordBits, calls, written, inner, owner, view, dev, callerDev, freed, pc, cur,
                   panicked>>

\* DeviceMemoryBuilder::allocation_size
SetAllocationSizeResetsIndex(allocation_size) ==
    /\ builder' = [allocation_size |-> allocation_size, memory_type_index |-> 0]
    /\ UNCHANGED built
    /\ issued' = <<>>
    /\ ret' = Ret("allocation_size", "builder", 0, <<allocation_size>>)
    /\ UNCHANGED <<wordBits, calls, written, inner, owner, view, dev, callerDev, freed, pc, cur,
                   panicked>>
SetAllocationSize(allocation_size) ==
    /\ builder' = [builder EXCEPT !.allocation_size = allocation_size]
    /\ UNCHANGED built
    /\ issued' = <<>>
    /\ ret' = Ret("allocation_size", "builder", 0, <<allocation_size>>)
    /\ UNCHANGED <<wordBits, calls, written, inner, owner, view, dev, callerDev, freed, pc, cur,
                   panicked>>

\* DeviceMemoryBuilder::memory_type_index
SetMemoryTypeIndex(memory_type_index) ==
    /\ builder' = [builder EXCEPT !.memory_type_index = memory_type_index]
    /\ UNCHANGED built
    /\ issued' = <<>>
    /\ ret' = Ret("memory_type_index", "builder", 0, <<memory_type_index>>)
    /\ UNCHANGED <<wordBits, calls, written, inner, owner, view, dev, callerDev, freed, pc, cur,
                   panicked>>

\* the Inner that build wraps in a new Arc
NewInnerZeroSize(handle, device, info) ==
    [handle |-> handle, device |-> device, allocation_size |-> 0,
     memory_type_index |-> info.memory_type_index,
     strong |-> 1, phase |-> "alive"]
NewInnerNullHandle(handle, device, info) ==
    [handle |-> NullHandle, device |-> device,
     allocation_size |-> info.allocation_size,
     memory_type_index |-> info.memory_type_index,
     strong |-> 1, phase |-> "alive"]
NewInner(handle, device, info) ==
    [handle |-> handle, device |-> device,
     allocation_size |-> info.allocation_size,
     memory_type_index |-> info.memory_type_index,
     strong |-> 1, phase |-> "alive"]

\* what build forwards to Device::allocate_memory: &self.allocate_info
AllocateCallDefaults(d, h, info, ok) == Call("allocate", d, h, 0, 0, 0, ok)
AllocateCall(d, h, info, ok) ==
    Call("allocate", d, h, info.allocation_size, info.memory_type_index, 0, ok)

\* build takes &self: the builder is the same after the call
BuilderTakenByBuild(info) == DefaultAllocateInfo
BuilderAfterBuild(info) == info
\* Inner { device, .. }: the Device reference passed by value is kept by the
\* Inner, one more strong reference than the caller's own
DeviceRefBorrowed(dv, d) == dv
DeviceRefKept(dv, d) == [dv EXCEPT ![d].refs = @ + 1]
\* `?` on the VdResult of allocate_memory: the error is returned as it is
PropagateGeneric(reason) == "Unknown"
Propagate(reason) == reason

\* DeviceMemoryBuilder::build(&self, device), the Device answering a handle.
\* The caller passes a clone of its Device reference, which the Inner keeps.
BuildOk(t, d, h) ==
    /\ Running(t)
    /\ callerDev[d]
    /\ h \in Handles \ dev[d].allocated
    /\ \E b \in Blocks : inner[b].phase = "none"
    /\ \E o \in OwnerIds : ~IsOwner(o)
    /\ inner' = [inner EXCEPT ![FreeBlock] = NewInner(h, d, builder)]
    /\ owner' = [owner EXCEPT ![FreeOwnerId] = [blk |-> FreeBlock]]
    /\ issued' = <<AllocateCall(d, h, builder, TRUE)>>
    /\ dev' = DeviceRefKept(DeviceAllocated(d, h), d)
    /\ builder' = BuilderAfterBuild(builder)
    /\ built' = TRUE
    /\ ret' = Ret("build", "DeviceMemory", FreeOwnerId, <<>>)
    /\ UNCHANGED <<wordBits, calls, written, view, callerDev, freed, pc, cur, panicked>>

\* DeviceMemoryBuilder::build, the Device refusing: `?` returns the error and
\* the Device reference passed by value (a clone) is dropped again.
BuildErr(t, d, reason) ==
    /\ Running(t)
    /\ callerDev[d]
    /\ issued' = <<Refused(AllocateCall(d, NullHandle, builder, FALSE), reason)>>
    /\ builder' = BuilderAfterBuild(builder)
    /\ built' = TRUE
    /\ ret' = Ret("build", "AllocationError", 0, <<Propagate(reason)>>)
    /\ UNCHANGED <<wordBits, calls, written, inner, owner, view, dev, callerDev, freed, pc, cur,
                   panicked>>

\* the request DeviceMemory::new builds from: DeviceMemoryBuilder::new()
\* .allocation_size(allocation_size).memory_type_index(memory_type_index)
NewRequestSizeOnly(allocation_size, memory_type_index) ==
    [DefaultAllocateInfo EXCEPT !.allocation_size = allocation_size]
NewRequest(allocation_size, memory_type_index) ==
    [[DefaultAllocateInfo EXCEPT !.allocation_size = allocation_size]
        EXCEPT !.memory_type_index = memory_type_index]

\* DeviceMemory::new(device, allocation_size, memory_type_index), the Device
\* answering a handle; the builder it uses is a temporary of its own
NewOk(t, d, h, allocation_size, memory_type_index) ==
    /\ Running(t)
    /\ callerDev[d]
    /\ h \in Handles \ dev[d].allocated
    /\ \E b \in Blocks : inner[b].phase = "none"
    /\ \E o \in OwnerIds : ~IsOwner(o)
    /\ inner' = [inner EXCEPT ![FreeBlock] =
                    NewInner(h, d, NewRequest(allocation_size, memory_type_index))]
    /\ owner' = [owner EXCEPT ![FreeOwnerId] = [blk |-> FreeBlock]]
    /\ issued' = <<AllocateCall(d, h, NewRequest(allocation_size,
                                                 memory_type_index), TRUE)>>
    /\ dev' = DeviceRefKept(DeviceAllocated(d, h), d)
    /\ ret' = Ret("new", "DeviceMemory", FreeOwnerId,
                  <<allocation_size, memory_type_index>>)
    /\ UNCHANGED <<wordBits, calls, builder, built, written, view, callerDev, freed, pc, cur,
                   panicked>>

\* DeviceMemory::new, the Device refusing
NewErr(t, d, allocation_size, memory_type_index, reason) ==
    /\ Running(t)
    /\ callerDev[d]
    /\ issued' = <<Refused(AllocateCall(d, NullHandle,
                                        NewRequest(allocation_size,
                                                   memory_type_index), FALSE),
                           reason)>>
    /\ ret' = Ret("new", "AllocationError", 0,
                  <<allocation_size, memory_type_index, Propagate(reason)>>)
    /\ UNCHANGED <<wordBits, calls, builder, built, written, inner, owner, view, dev, callerDev,
                   freed, pc, cur, panicked>>

\* the caller drops its own Device reference
DropCallerDevice(d) ==
    /\ callerDev[d]
    /\ callerDev' = [callerDev EXCEPT ![d] = FALSE]
    /\ dev' = DeviceRefDropped(dev, d)
    /\ issued' = <<>>
    /\ ret' = Ret("drop_device", "unit", 0, <<>>)
    /\ UNCHANGED <<wordBits, calls, builder, built, written, inner, owner, view, freed, pc, cur,
                   panicked>>

\* ------------------------------------------------------------ DeviceMemory
\* Arc::clone / Arc::drop on the strong count of an Arc<Inner>
CloneWithoutCount(strong) == strong
StrongAfterClone(strong) == strong + 1
DropWithoutCount(strong) == strong
StrongAfterDrop(strong) == strong - 1
\* Arc::drop runs Inner's drop when it released the last strong reference
LastStrongOffByOne(strong) == strong <= 2
LastStrong(strong) == strong = 1

\* #[derive(Clone)] for DeviceMemory: one more owner of the same Arc<Inner>
Clone(t, o) ==
    /\ Running(t)
    /\ IsOwner(o)
    /\ \E n \in OwnerIds : ~IsOwner(n)
    /\ owner' = [owner EXCEPT ![FreeOwnerId] = [blk |-> BlockOf(o)]]
    /\ inner' = [inner EXCEPT ![BlockOf(o)].strong = StrongAfterClone(@)]
    /\ issued' = <<>>
    /\ ret' = Ret("clone", "DeviceMemory", 0, <<>>)
    /\ UNCHANGED <<wordBits, calls, builder, built, written, view, dev, callerDev, freed, pc, cur,
                   panicked>>

\* a DeviceMemory value is dropped (also while its thread unwinds): Arc::drop
\* decrements the strong count atomically; the thread that released the last
\* reference goes on to drop the Inner.  A borrowed value cannot be dropped
\* (MemoryMapping<'m, T> holds the borrow &'m self).
Release(t, o) ==
    /\ pc[t] = "run"
    /\ IsOwner(o)
    /\ ~Borrowed(o)
    /\ LET b == BlockOf(o)
           final == LastStrong(inner[b].strong)
       IN /\ owner' = [owner EXCEPT ![o] = NoOwner]
          /\ inner' = [inner EXCEPT ![b].strong = StrongAfterDrop(@),
                                    ![b].phase = IF final THEN "dropping" ELSE @]
          /\ pc' = [pc EXCEPT ![t] = IF final THEN "drop_inner" ELSE @]
          /\ cur' = [cur EXCEPT ![t] = IF final THEN b ELSE @]
    /\ issued' = <<>>
    /\ ret' = Ret("drop", "unit", 0, <<>>)
    /\ UNCHANGED <<wordBits, calls, builder, built, written, view, dev, callerDev, freed, panicked>>

\* what Inner's drop forwards to Device::free_memory: self.handle
FreeCallFirstBlock(b) ==
    Call("free", inner[1].device, inner[1].handle, 0, 0, 0, TRUE)
FreeCall(b) == Call("free", inner[b].device, inner[b].handle, 0, 0, 0, TRUE)

\* Drop for Inner: device.free_memory(self.handle, None)
DropInnerReleasesDevice(t) ==
    /\ pc[t] = "drop_inner"
    /\ freed' = [freed EXCEPT ![cur[t]] = @ + 1]
    /\ issued' = <<FreeCall(cur[t])>>
    /\ dev' = DeviceRefDropped(DeviceFreed(inner[cur[t]].device,
                                           inner[cur[t]].handle),
                               inner[cur[t]].device)
    /\ inner' = [inner EXCEPT ![cur[t]].phase = "freed"]
    /\ pc' = [pc EXCEPT ![t] = "drop_fields"]
    /\ ret' = Ret("drop", "unit", 0, <<>>)
    /\ UNCHANGED <<wordBits, calls, builder, built, written, owner, view, callerDev, cur, panicked>>
DropInner(t) ==
    /\ pc[t] = "drop_inner"
    /\ freed' = [freed EXCEPT ![cur[t]] = @ + 1]
    /\ issued' = <<FreeCall(cur[t])>>
    /\ dev' = DeviceFreed(inner[cur[t]].device, inner[cur[t]].handle)
    /\ inner' = [inner EXCEPT ![cur[t]].phase = "freed"]
    /\ pc' = [pc EXCEPT ![t] = "drop_fields"]
    /\ ret' = Ret("drop", "unit", 0, <<>>)
    /\ UNCHANGED <<wordBits, calls, builder, built, written, owner, view, callerDev, cur, panicked>>

\* Drop for Inner, the Device failing to free: free_memory's outcome is not
\* looked at, the drop goes on as if it had succeeded
DropInnerErrAborts(t) ==
    /\ pc[t] = "drop_inner"
    /\ freed' = [freed EXCEPT ![cur[t]] = @ + 1]
    /\ issued' = <<Refused(FreeCall(cur[t]), "DeviceLost")>>
    /\ panicked' = panicked \cup {t}
    /\ ret' = Ret("drop", "panic", 0, <<>>)
    /\ UNCHANGED <<wordBits, calls, builder, built, written, inner, owner, view, dev, callerDev,
                   pc, cur>>
DropInnerErr(t) ==
    /\ pc[t] = "drop_inner"
    /\ freed' = [freed EXCEPT ![cur[t]] = @ + 1]
    /\ issued' = <<Refused(FreeCall(cur[t]), "DeviceLost")>>
    /\ inner' = [inner EXCEPT ![cur[t]].phase = "freed"]
    /\ pc' = [pc EXCEPT ![t] = "drop_fields"]
    /\ ret' = Ret("drop", "unit", 0, <<>>)
    /\ UNCHANGED <<wordBits, calls, builder, built, written, owner, view, dev, callerDev, cur,
                   panicked>>

\* after Inner::drop returns, Inner's fields are dropped: the Device reference
DropFields(t) ==
    /\ pc[t] = "drop_fields"
    /\ dev' = DeviceRefDropped(dev, inner[cur[t]].device)
    /\ inner' = [inner EXCEPT ![cur[t]].phase = "gone"]
    /\ pc' = [pc EXCEPT ![t] = "run"]
    /\ cur' = [cur EXCEPT ![t] = 0]
    /\ issued' = <<>>
    /\ ret' = Ret("drop", "unit", 0, <<>>)
    /\ UNCHANGED <<wordBits, calls, builder, built, written, owner, view, callerDev, freed, panicked>>

\* DeviceMemory::handle
Handle(t, o) ==
    /\ Running(t)
    /\ IsOwner(o)
    /\ issued' = <<>>
    /\ ret' = Ret("handle", "DeviceMemoryHandle", o, <<inner[BlockOf(o)].handle>>)
    /\ UNCHANGED <<wordBits, calls, builder, built, written, inner, owner, view, dev, callerDev,
                   freed, pc, cur, panicked>>

\* Handle for DeviceMemoryHandle: handle(&self) is *self
HandleOfHandle(h) == h
\* Handle for &DeviceMemory: handle(&self) is self.inner.handle
RefHandleNull(o) == NullHandle
RefHandle(o) == inner[BlockOf(o)].handle

\* <&DeviceMemory as Handle>::handle, on a borrowed reference to o
HandleRef(t, o) ==
    /\ Running(t)
    /\ IsOwner(o)
    /\ issued' = <<>>
    /\ ret' = Ret("Handle::handle", "DeviceMemoryHandle", o,
                  <<HandleOfHandle(RefHandle(o))>>)
    /\ UNCHANGED <<wordBits, calls, builder, built, written, inner, owner, view, dev, callerDev,
                   freed, pc, cur, panicked>>

\* DeviceMemory::device
Device(t, o) ==
    /\ Running(t)
    /\ IsOwner(o)
    /\ issued' = <<>>
    /\ ret' = Ret("device", "Device", o, <<inner[BlockOf(o)].device>>)
    /\ UNCHANGED <<wordBits, calls, builder, built, written, inner, owner, view, dev, callerDev,
                   freed, pc, cur, panicked>>

\* `size_bytes as usize`: the cast keeps the low wordBits bits
AsUsizeWide(size_bytes) == size_bytes
AsUsize(size_bytes) == size_bytes % Pow2(wordBits)
\* map: let len = size_bytes as usize / mem::size_of::<T>()
MappingLen(size_bytes, elem) == AsUsize(size_bytes) \div elem
\* MemoryMapping::new(ptr, len, mem_handle); borrow is the &'m self of map
\* and elem the size of the T of MemoryMapping<'m, T>
MemoryMappingNew(ptr, len, mem_handle, o, elem) ==
    [ptr |-> ptr, len |-> len, mem_handle |-> mem_handle, borrow |-> o,
     elem |-> elem]
\* self.inner.handle and self.inner.device of a DeviceMemory value
SelfHandle(o) == inner[BlockOf(o)].handle
SelfDevice(o) == inner[BlockOf(o)].device
\* what map_to_ptr forwards to Device::map_memory
MapCallClamped(o, offset_bytes, size_bytes, flags, ok) ==
    Call("map", SelfDevice(o), SelfHandle(o), offset_bytes,
         IF offset_bytes + size_bytes > inner[BlockOf(o)].allocation_size
         THEN inner[BlockOf(o)].allocation_size - offset_bytes
         ELSE size_bytes,
         flags, ok)
MapCallNullHandle(o, offset_bytes, size_bytes, flags, ok) ==
    Call("map", SelfDevice(o), NullHandle, offset_bytes, size_bytes, flags, ok)
MapCallFlagsZero(o, offset_bytes, size_bytes, flags, ok) ==
    Call("map", SelfDevice(o), SelfHandle(o), offset_bytes, size_bytes, 0, ok)
MapCallOffsetZero(o, offset_bytes, size_bytes, flags, ok) ==
    Call("map", SelfDevice(o), SelfHandle(o), 0, size_bytes, flags, ok)
MapCall(o, offset_bytes, size_bytes, flags, ok) ==
    Call("map", SelfDevice(o), SelfHandle(o), offset_bytes, size_bytes, flags, ok)
\* what unmap_ptr forwards to Device::unmap_memory
UnmapCallFrees(o) == Call("free", SelfDevice(o), SelfHandle(o), 0, 0, 0, TRUE)
UnmapCallNullHandle(o) == Call("unmap", SelfDevice(o), NullHandle, 0, 0, 0, TRUE)
UnmapCall(o) == Call("unmap", SelfDevice(o), SelfHandle(o), 0, 0, 0, TRUE)
\* unmap's assert!(mapping.mem_handle == self.inner.handle)
UnmapCheckSkipped(mapping, o) == TRUE
UnmapCheckSameOwner(mapping, o) == mapping.borrow = o
UnmapCheck(mapping, o) == mapping.mem_handle = SelfHandle(o)

\* DeviceMemory::map_to_ptr, the Device answering a pointer
MapToPtrOk(t, o, offset_bytes, size_bytes, flags) ==
    /\ Running(t)
    /\ IsOwner(o)
    /\ CallsLeft("map", BlockOf(o))
    /\ issued' = <<MapCall(o, offset_bytes, size_bytes, flags, TRUE)>>
    /\ dev' = DeviceMapped(SelfDevice(o), SelfHandle(o))
    /\ calls' = Counted("map", BlockOf(o))
    /\ ret' = Ret("map_to_ptr", "ptr", o, <<offset_bytes, size_bytes, flags>>)
    /\ UNCHANGED <<wordBits, builder, built, written, inner, owner, view, callerDev, freed, pc,
                   cur, panicked>>

\* DeviceMemory::map_to_ptr, the Device refusing
MapToPtrErr(t, o, offset_bytes, size_bytes, flags) ==
    /\ Running(t)
    /\ IsOwner(o)
    /\ issued' = <<MapCall(o, offset_bytes, size_bytes, flags, FALSE)>>
    /\ ret' = Ret("map_to_ptr", "MapError", o,
                <<offset_bytes, size_bytes, flags>>)
    /\ UNCHANGED <<wordBits, calls, builder, built, written, inner, owner, view, dev, callerDev, freed,
                   pc, cur, panicked>>

\* DeviceMemory::unmap_ptr
UnmapPtr(t, o) ==
    /\ Running(t)
    /\ IsOwner(o)
    /\ CallsLeft("unmap", BlockOf(o))
    /\ issued' = <<UnmapCall(o)>>
    /\ dev' = DeviceUnmapped(SelfDevice(o), SelfHandle(o))
    /\ calls' = Counted("unmap", BlockOf(o))
    /\ ret' = Ret("unmap_ptr", "unit", o, <<>>)
    /\ UNCHANGED <<wordBits, builder, built, written, inner, owner, view, callerDev, freed, pc,
                   cur, panicked>>

\* DeviceMemory::map::<T>, the Device answering a pointer and T not zero-sized
MapOk(t, o, offset_bytes, size_bytes, flags, elem) ==
    /\ Running(t)
    /\ IsOwner(o)
    /\ CallsLeft("map", BlockOf(o))
    /\ elem # 0
    /\ \E v \in ViewIds : ~IsView(v)
    /\ issued' = <<MapCall(o, offset_bytes, size_bytes, flags, TRUE)>>
    /\ dev' = DeviceMapped(SelfDevice(o), SelfHandle(o))
    /\ view' = [view EXCEPT ![FreeViewId] =
                   MemoryMappingNew(DevicePtr(offset_bytes),
                                    MappingLen(size_bytes, elem), SelfHandle(o),
                                    o, elem)]
    /\ calls' = Counted("map", BlockOf(o))
    /\ ret' = Ret("map", "MemoryMapping", o,
                <<offset_bytes, size_bytes, flags, elem, FreeViewId>>)
    /\ UNCHANGED <<wordBits, builder, built, written, inner, owner, callerDev, freed, pc, cur,
                   panicked>>

\* DeviceMemory::map::<T> for a zero-sized T, the Device answering a pointer:
\* the division by mem::size_of::<T>() panics after the Device call
MapDivZeroChecksFirst(t, o, offset_bytes, size_bytes, flags, elem) ==
    /\ Running(t)
    /\ IsOwner(o)
    /\ elem = 0
    /\ issued' = <<>>
    /\ panicked' = panicked \cup {t}
    /\ ret' = Ret("map", "panic", o, <<offset_bytes, size_bytes, flags, elem, 0>>)
    /\ UNCHANGED <<wordBits, calls, builder, built, written, inner, owner, view, dev, callerDev,
                   freed, pc, cur>>
MapDivZero(t, o, offset_bytes, size_bytes, flags, elem) ==
    /\ Running(t)
    /\ IsOwner(o)
    /\ CallsLeft("map", BlockOf(o))
    /\ elem = 0
    /\ issued' = <<MapCall(o, offset_bytes, size_bytes, flags, TRUE)>>
    /\ dev' = DeviceMapped(SelfDevice(o), SelfHandle(o))
    /\ panicked' = panicked \cup {t}
    /\ calls' = Counted("map", BlockOf(o))
    /\ ret' = Ret("map", "panic", o, <<offset_bytes, size_bytes, flags, elem, 0>>)
    /\ UNCHANGED <<wordBits, builder, built, written, inner, owner, view, callerDev, freed, pc,
                   cur>>

\* DeviceMemory::map::<T>, the Device refusing: `?` returns the error
MapErrRetried(t, o, offset_bytes, size_bytes, flags, elem) ==
    /\ Running(t)
    /\ IsOwner(o)
    /\ issued' = <<MapCall(o, offset_bytes, size_bytes, flags, FALSE),
                   MapCall(o, offset_bytes, size_bytes, flags, FALSE)>>
    /\ ret' = Ret("map", "MapError", o,
                <<offset_bytes, size_bytes, flags, elem, 0>>)
    /\ UNCHANGED <<wordBits, calls, builder, built, written, inner, owner, view, dev, callerDev, freed,
                   pc, cur, panicked>>
MapErr(t, o, offset_bytes, size_bytes, flags, elem) ==
    /\ Running(t)
    /\ IsOwner(o)
    /\ issued' = <<MapCall(o, offset_bytes, size_bytes, flags, FALSE)>>
    /\ ret' = Ret("map", "MapError", o,
                <<offset_bytes, size_bytes, flags, elem, 0>>)
    /\ UNCHANGED <<wordBits, calls, builder, built, written, inner, owner, view, dev, callerDev, freed,
                   pc, cur, panicked>>

\* DeviceMemory::unmap(mapping), the assertion holding
UnmapOkReleases(t, o, v) ==
    /\ Running(t)
    /\ IsOwner(o)
    /\ CallsLeft("unmap", BlockOf(o))
    /\ IsView(v)
    /\ UnmapCheck(view[v], o)
    /\ issued' = <<UnmapCall(o)>>
    /\ dev' = DeviceUnmapped(SelfDevice(o), SelfHandle(o))
    /\ view' = [view EXCEPT ![v] = NoView]
    /\ inner' = [inner EXCEPT ![BlockOf(o)].strong = @ - 1]
    /\ written' = IF written.blk = BlockOf(o)
                  THEN [written EXCEPT !.unmapped = TRUE] ELSE written
    /\ calls' = Counted("unmap", BlockOf(o))
    /\ ret' = Ret("unmap", "unit", o, <<v, view[v]>>)
    /\ UNCHANGED <<wordBits, builder, built, owner, callerDev, freed, pc, cur,
                   panicked>>
UnmapOk(t, o, v) ==
    /\ Running(t)
    /\ IsOwner(o)
    /\ CallsLeft("unmap", BlockOf(o))
    /\ IsView(v)
    /\ UnmapCheck(view[v], o)
    /\ issued' = <<UnmapCall(o)>>
    /\ dev' = DeviceUnmapped(SelfDevice(o), SelfHandle(o))
    /\ view' = [view EXCEPT ![v] = NoView]
    /\ written' = IF written.blk = BlockOf(o)
                  THEN [written EXCEPT !.unmapped = TRUE] ELSE written
    /\ calls' = Counted("unmap", BlockOf(o))
    /\ ret' = Ret("unmap", "unit", o, <<v, view[v]>>)
    /\ UNCHANGED <<wordBits, builder, built, inner, owner, callerDev, freed, pc,
                   cur, panicked>>

\* DeviceMemory::unmap(mapping), the assertion failing: the thread panics and
\* the mapping, moved into the call, is dropped by the unwinding
UnmapPanic(t, o, v) ==
    /\ Running(t)
    /\ IsOwner(o)
    /\ IsView(v)
    /\ ~UnmapCheck(view[v], o)
    /\ view' = [view EXCEPT ![v] = NoView]
    /\ issued' = <<>>
    /\ panicked' = panicked \cup {t}
    /\ ret' = Ret("unmap", "panic", o, <<v, view[v]>>)
    /\ UNCHANGED <<wordBits, calls, builder, built, written, inner, owner, dev, callerDev, freed, pc,
                   cur>>

\* the bytes of an element value of elem bytes, lowest byte first, and back
EncodeByte(x, k) == (x \div (256 ^ k)) % 256
RECURSIVE DecodeFrom(_, _, _)
DecodeFrom(bytes, k, elem) ==
    IF k = elem THEN 0
    ELSE bytes[k] * (256 ^ k) + DecodeFrom(bytes, k + 1, elem)

\* the bytes of its allocation a view's slice covers
SliceBytesOneMore(mapping) ==
    DeviceByte(mapping.ptr)
        .. (DeviceByte(mapping.ptr) + (mapping.len + 1) * mapping.elem - 1)
SliceBytes(mapping) ==
    DeviceByte(mapping.ptr)
        .. (DeviceByte(mapping.ptr) + mapping.len * mapping.elem - 1)
ViewMemory(mapping) ==
    dev[inner[BlockOf(mapping.borrow)].device].memory[mapping.mem_handle]

\* Deref for MemoryMapping: slice::from_raw_parts(self.ptr, self.len), read
\* element by element
ElementAt(mapping, first) ==
    DecodeFrom([k \in 0..(mapping.elem - 1) |-> ViewMemory(mapping)[first + k]],
               0, mapping.elem)
SliceOffByOne(mapping) ==
    [i \in 1..mapping.len |->
        ElementAt(mapping, DeviceByte(mapping.ptr) + i * mapping.elem)]
Slice(mapping) ==
    [i \in 1..mapping.len |->
        ElementAt(mapping, DeviceByte(mapping.ptr) + (i - 1) * mapping.elem)]

\* DerefMut for MemoryMapping: slice::from_raw_parts_mut(self.ptr, self.len),
\* every element of which the caller sets to x.  The mapping is still mapped
\* at the Device (a write through a view whose region has been unmapped is
\* undefined behaviour and is not among these steps).
Write(t, v, x) ==
    /\ Running(t)
    /\ IsView(v)
    /\ view[v].mem_handle \in dev[inner[BlockOf(view[v].borrow)].device].mapped
    /\ dev' = [dev EXCEPT
                 ![inner[BlockOf(view[v].borrow)].device].memory[view[v].mem_handle] =
                     [a \in MemBytes |->
                        IF a \in SliceBytes(view[v])
                        THEN EncodeByte(x, (a - DeviceByte(view[v].ptr))
                                              % view[v].elem)
                        ELSE @[a]]]
    /\ written' = [blk |-> BlockOf(view[v].borrow), ptr |-> view[v].ptr,
                   len |-> view[v].len, elem |-> view[v].elem, value |-> x,
                   unmapped |-> FALSE]
    /\ issued' = <<>>
    /\ ret' = Ret("write", "unit", 0, <<v>>)
    /\ UNCHANGED <<wordBits, calls, builder, built, inner, owner, view, callerDev, freed,
                   pc, cur, panicked>>

\* a MemoryMapping is dropped without unmap (it has no Drop impl)
DropViewUnmaps(t, v) ==
    /\ pc[t] = "run"
    /\ IsView(v)
    /\ view' = [view EXCEPT ![v] = NoView]
    /\ issued' = <<Call("unmap", inner[BlockOf(view[v].borrow)].device,
                        view[v].mem_handle, 0, 0, 0, TRUE)>>
    /\ dev' = DeviceUnmapped(inner[BlockOf(view[v].borrow)].device,
                             view[v].mem_handle)
    /\ ret' = Ret("drop_view", "unit", 0, <<>>)
    /\ UNCHANGED <<wordBits, calls, builder, built, written, inner, owner, callerDev, freed, pc,
                   cur, panicked>>
DropView(t, v) ==
    /\ pc[t] = "run"
    /\ IsView(v)
    /\ view' = [view EXCEPT ![v] = NoView]
    /\ issued' = <<>>
    /\ ret' = Ret("drop_view", "unit", 0, <<>>)
    /\ UNCHANGED <<wordBits, calls, builder, built, written, inner, owner, dev, callerDev, freed, pc,
                   cur, panicked>>

\* ----------------------------------------------------------- specification
LiveOwners == {o \in OwnerIds : IsOwner(o)}
LiveViews == {v \in ViewIds : IsView(v)}

\* The steps of callers on the threads T that use the Devices D, keep at most
\* nOwners DeviceMemory values and nViews MemoryMappings alive, and draw their
\* arguments from the given sets.
BuilderSteps(AS, TI) ==
    \/ BuilderNew
    \/ \E n \in AS : SetAllocationSize(n)
    \/ \E i \in TI : SetMemoryTypeIndex(i)

BuildSteps(T, D, R) ==
    \/ \E t \in T, d \in D, h \in Handles : BuildOk(t, d, h)
    \/ \E t \in T, d \in D, r \in R : BuildErr(t, d, r)

OwnerSteps(T, nOwners) ==
    \/ \E t \in T, o \in OwnerIds :
          Cardinality(LiveOwners) < nOwners /\ Clone(t, o)
    \/ \E t \in T, o \in OwnerIds : Release(t, o)
    \/ \E t \in T : DropInner(t)
    \/ \E t \in T : DropFields(t)

FreeFailSteps(T) == \E t \in T : DropInnerErr(t)

NewSteps(T, D, AS, TI, R) ==
    \/ \E t \in T, d \in D, h \in Handles, n \in AS, i \in TI :
          NewOk(t, d, h, n, i)
    \/ \E t \in T, d \in D, n \in AS, i \in TI, r \in R : NewErr(t, d, n, i, r)

AccessorSteps(T) ==
    \/ \E t \in T, o \in OwnerIds : Handle(t, o)
    \/ \E t \in T, o \in OwnerIds : Device(t, o)

CapabilitySteps(T) == \E t \in T, o \in OwnerIds : HandleRef(t, o)

\* mapping with a sized T, the Device answering a pointer, and giving the
\* view back through unmap or by dropping it
ViewSteps(T, nViews, OF, MS, FL, ES) ==
    \/ \E t \in T, o \in OwnerIds, off \in OF, n \in MS, f \in FL, s \in ES :
          Cardinality(LiveViews) < nViews /\ MapOk(t, o, off, n, f, s)
    \/ \E t \in T, o \in OwnerIds, v \in ViewIds : UnmapOk(t, o, v)
    \/ \E t \in T, v \in ViewIds : DropView(t, v)

\* the maps that return no view: a zero-sized T, or the Device refusing
FailSteps(T, OF, MS, FL, ES) ==
    \/ \E t \in T, o \in OwnerIds, off \in OF, n \in MS, f \in FL, s \in ES :
          MapDivZero(t, o, off, n, f, s)
    \/ \E t \in T, o \in OwnerIds, off \in OF, n \in MS, f \in FL, s \in ES :
          MapErr(t, o, off, n, f, s)

PtrSteps(T, OF, MS, FL) ==
    \/ \E t \in T, o \in OwnerIds, off \in OF, n \in MS, f \in FL :
          MapToPtrOk(t, o, off, n, f)
    \/ \E t \in T, o \in OwnerIds, off \in OF, n \in MS, f \in FL :
          MapToPtrErr(t, o, off, n, f)
    \/ \E t \in T, o \in OwnerIds : UnmapPtr(t, o)

MapSteps(T, nViews, OF, MS, FL, ES) ==
    \/ \E t \in T, o \in OwnerIds, off \in OF, n \in MS, f \in FL, s \in ES :
          Cardinality(LiveViews) < nViews /\ MapOk(t, o, off, n, f, s)
    \/ \E t \in T, o \in OwnerIds, off \in OF, n \in MS, f \in FL, s \in ES :
          MapDivZero(t, o, off, n, f, s)
    \/ \E t \in T, o \in OwnerIds, off \in OF, n \in MS, f \in FL, s \in ES :
          MapErr(t, o, off, n, f, s)
    \/ \E t \in T, o \in OwnerIds, v \in ViewIds : UnmapOk(t, o, v)
    \/ \E t \in T, o \in OwnerIds, v \in ViewIds : UnmapPanic(t, o, v)
    \/ \E t \in T, v \in ViewIds : DropView(t, v)

\* Spec: shared ownership across two threads on one Device, 64-bit target
Next ==
    \/ BuildSteps(Threads, {"devA"}, {"OutOfDeviceMemory"})
    \/ OwnerSteps(Threads, MaxOwners)
    \/ PtrSteps(Threads, {0}, {7}, {0})
    \/ MapSteps(Threads, 1, {0}, {7}, {0}, {0, 4})

Spec == InitFor({U64Bits}) /\ [][Next]_vars

\* SpecMap: one thread mapping and unmapping the blocks of one Device with
\* every combination of arguments; two owners suffice for a view to meet an
\* owner of another block, sharing beyond that is explored by Spec
NextMap ==
    \/ BuildSteps({"t1"}, {"devA"}, {"OutOfDeviceMemory"})
    \/ OwnerSteps({"t1"}, 2)
    \/ MapSteps({"t1"}, 1, Offsets, MapSizes, FlagValues, ElemSizes)

SpecMap == Init /\ [][NextMap]_vars

\* SpecDev: one thread using two Devices, whose references the caller may
\* drop; one owner per Device suffices for the blocks of both to meet
NextDev ==
    \/ BuildSteps({"t1"}, Devices, {"OutOfDeviceMemory"})
    \/ \E d \in Devices : DropCallerDevice(d)
    \/ OwnerSteps({"t1"}, 2)
    \/ MapSteps({"t1"}, 1, {0}, {7}, {0}, {0, 4})

SpecDev == Init /\ [][NextDev]_vars

\* SpecBuild: one thread configuring builders and building from them, the
\* Device refusing for any of its reasons
NextBuild ==
    \/ BuilderSteps(AllocSizes, TypeIndexes)
    \/ BuildSteps({"t1"}, {"devA"}, AllocErrors)
    \/ OwnerSteps({"t1"}, 2)
    \/ AccessorSteps({"t1"})

SpecBuild == InitFor({U64Bits}) /\ [][NextBuild]_vars

\* SpecRef: two threads building on two Devices and releasing, while the
\* caller may drop its own Device references
NextRef ==
    \/ BuildSteps(Threads, Devices, {"OutOfDeviceMemory"})
    \/ \E d \in Devices : DropCallerDevice(d)
    \/ OwnerSteps(Threads, 2)

SpecRef == InitFor({U64Bits}) /\ [][NextRef]_vars

\* SpecApi: one thread using every operation of a DeviceMemory, with up to
\* MaxViews views alive and a Device whose free may fail
NextApi ==
    \/ BuildSteps({"t1"}, {"devA"}, {"OutOfDeviceMemory"})
    \/ OwnerSteps({"t1"}, 2)
    \/ FreeFailSteps({"t1"})
    \/ AccessorSteps({"t1"})
    \/ PtrSteps({"t1"}, {0}, {7}, {0})
    \/ MapSteps({"t1"}, MaxViews, {0}, {7}, {0}, {0, 4})

SpecApi == InitFor({U64Bits}) /\ [][NextApi]_vars

\* SpecViews: one thread mapping up to MaxViews views and unmapping them
NextViews ==
    \/ BuildSteps({"t1"}, {"devA"}, {"OutOfDeviceMemory"})
    \/ OwnerSteps({"t1"}, 2)
    \/ MapSteps({"t1"}, MaxViews, {0}, {7}, {0}, {0, 4})

SpecViews == InitFor({U64Bits}) /\ [][NextViews]_vars

\* SpecBlock: one thread building one block at a time from a builder it
\* keeps changing, then cloning and mapping the block (with one block at a
\* time no view meets an owner of another block, so unmap never panics)
NextBlock ==
    \/ BuilderSteps(AllocSizes, TypeIndexes)
    \/ LiveOwners = {} /\ BuildSteps({"t1"}, {"devA"}, {"OutOfDeviceMemory"})
    \/ OwnerSteps({"t1"}, 2)
    \/ ViewSteps({"t1"}, 1, {0}, {7}, {0}, {4})
    \/ FailSteps({"t1"}, {0}, {7}, {0}, {0, 4})

SpecBlock == InitFor({U64Bits}) /\ [][NextBlock]_vars

\* SpecBounds: one thread making one block of 8 bytes at a time and mapping
\* ranges of it that lie inside (offset 0) and outside (offset 2) the block
NextBounds ==
    \/ LiveOwners = {} /\ NewSteps({"t1"}, {"devA"}, {8}, TypeIndexes,
                                    {"OutOfDeviceMemory"})
    \/ OwnerSteps({"t1"}, 2)
    \/ PtrSteps({"t1"}, Offsets, {7}, {0})
    \/ ViewSteps({"t1"}, 1, Offsets, {7}, {0}, {4})
    \/ FailSteps({"t1"}, Offsets, {7}, {0}, {0, 4})

SpecBounds == InitFor({U64Bits}) /\ [][NextBounds]_vars

\* SpecNew: one thread making one block at a time, through a builder or
\* through DeviceMemory::new
NextNew ==
    \/ BuilderSteps(AllocSizes, TypeIndexes)
    \/ LiveOwners = {} /\ BuildSteps({"t1"}, {"devA"}, AllocErrors)
    \/ LiveOwners = {} /\ NewSteps({"t1"}, {"devA"}, AllocSizes, TypeIndexes,
                                    AllocErrors)
    \/ OwnerSteps({"t1"}, 2)

SpecNew == InitFor({U64Bits}) /\ [][NextNew]_vars

\* SpecHandle: one thread building blocks, cloning them and asking every
\* owner for its handle
NextHandle ==
    \/ BuildSteps({"t1"}, {"devA"}, {"OutOfDeviceMemory"})
    \/ OwnerSteps({"t1"}, MaxOwners)
    \/ AccessorSteps({"t1"})
    \/ CapabilitySteps({"t1"})

SpecHandle == InitFor({U64Bits}) /\ [][NextHandle]_vars

\* SpecMem: one thread making one block of 8 bytes at a time, mapping 4
\* bytes of it at offset 0 or 2 as elements of 2 bytes, filling the view with
\* a pattern, unmapping and mapping again
MemSteps(T) == \E t \in T, v \in ViewIds, x \in PatternValues : Write(t, v, x)

NextMem ==
    \/ LiveOwners = {} /\ NewSteps({"t1"}, {"devA"}, {8}, {0},
                                    {"OutOfDeviceMemory"})
    \/ OwnerSteps({"t1"}, 2)
    \/ ViewSteps({"t1"}, 1, Offsets, {4}, {0}, {2})
    \/ FailSteps({"t1"}, Offsets, {4}, {0}, {0, 2})
    \/ MemSteps({"t1"})

SpecMem == InitFor({U64Bits}) /\ [][NextMem]_vars

\* SpecLeak: one thread making one block at a time and mapping it with a
\* sized T; every view is either unmapped or dropped, and nothing else maps
NextLeak ==
    \/ LiveOwners = {} /\ BuildSteps({"t1"}, {"devA"}, {"OutOfDeviceMemory"})
    \/ OwnerSteps({"t1"}, 2)
    \/ ViewSteps({"t1"}, MaxViews, {0}, {7}, {0}, {4})

SpecLeak == InitFor({U64Bits}) /\ [][NextLeak]_vars

\* SpecCount: one thread building on two Devices whose double counts the
\* successful map and unmap calls made for each block, up to MaxCalls
NextCount ==
    \/ BuildSteps({"t1"}, Devices, {"OutOfDeviceMemory"})
    \/ OwnerSteps({"t1"}, 2)
    \/ MapSteps({"t1"}, 1, {0}, {7}, {0}, {0, 4})

SpecCount == InitWith({U64Bits}, CountedCalls) /\ [][NextCount]_vars

\* SpecLen: one thread making one block at a time, on a narrow or a 64-bit
\* target, and mapping it with every combination of offset, size and flags
NextLen ==
    \/ LiveOwners = {} /\ BuildSteps({"t1"}, {"devA"}, {"OutOfDeviceMemory"})
    \/ OwnerSteps({"t1"}, 2)
    \/ ViewSteps({"t1"}, 1, Offsets, MapSizes, FlagValues, {4})
    \/ FailSteps({"t1"}, Offsets, MapSizes, FlagValues, ElemSizes)

SpecLen == Init /\ [][NextLen]_vars

\* SpecShare: two threads sharing one block at a time through clones, and
\* mapping the same range of it with up to MaxViews views alive
NextShare ==
    \/ LiveOwners = {} /\ BuildSteps(Threads, {"devA"}, {"OutOfDeviceMemory"})
    \/ OwnerSteps(Threads, 2)
    \/ ViewSteps(Threads, MaxViews, {0}, {7}, {0}, {4})
    \/ FailSteps(Threads, {0}, {7}, {0}, {0, 4})

SpecShare == InitFor({U64Bits}) /\ [][NextShare]_vars

\* ------------------------------------------------------------------ claims
Built(b) == inner[b].phase # "none"
OwnersOf(b) == {o \in OwnerIds : IsOwner(o) /\ BlockOf(o) = b}
Droppers(b) == {t \in Threads : cur[t] = b}
FreeIssued(b) ==
    /\ Len(issued) = 1
    /\ issued[1] = Call("free", inner[b].device, inner[b].handle, 0, 0, 0, TRUE)

\* C1: while a block still has an owner no Device.free call has been made for
\* it; once the release of its last owner is over exactly one has been made,
\* with the block's handle; the count of free calls for a block never
\* exceeds one.
C1_FreeOnlyAtLastRelease ==
    \A b \in Blocks :
        /\ freed[b] <= 1
        /\ OwnersOf(b) # {} => freed[b] = 0
        /\ inner[b].phase = "gone" => freed[b] = 1
        /\ (inner[b].phase = "freed" /\ Len(issued) = 1 /\ issued[1].op = "free")
              => \E c \in Blocks : inner[c].phase = "freed" /\ FreeIssued(c)

C1_Witness ==
    \E b, c \in Blocks :
        /\ inner[b].phase = "gone" /\ freed[b] = 1
        /\ Cardinality(OwnersOf(c)) >= 2 /\ freed[c] = 0

\* C2: under every interleaving of releases by the threads, only the thread
\* whose release was the final one drops the Inner: it is the only thread
\* doing so, it starts when no owner is left, it makes the one free call, and
\* a block without owners is never left unfreed with no thread freeing it.
C2_OneThreadFrees ==
    /\ \A b \in Blocks :
          /\ Cardinality(Droppers(b)) <= 1
          /\ Droppers(b) # {} => OwnersOf(b) = {} /\ inner[b].strong = 0
          /\ freed[b] = IF inner[b].phase \in {"freed", "gone"} THEN 1 ELSE 0
          /\ (Built(b) /\ OwnersOf(b) = {} /\ Droppers(b) = {}) => freed[b] = 1
    /\ \A t \in Threads :
          /\ pc[t] = "drop_inner" => inner[cur[t]].phase = "dropping"
          /\ pc[t] = "drop_fields" => inner[cur[t]].phase = "freed"
          /\ pc[t] = "run" <=> cur[t] = 0

C2_Witness ==
    \E t, u \in Threads :
        /\ pc[t] = "drop_fields" /\ freed[cur[t]] = 1
        /\ pc[u] = "drop_inner" /\ freed[cur[u]] = 0

\* C3: a built block's handle is valid at its Device (allocated, no free call
\* made for the block) exactly while the block has a live owner, the owner
\* whose final release has not yet reached its free call included.
HandleValid(b) ==
    /\ Built(b)
    /\ freed[b] = 0
    /\ inner[b].handle \in dev[inner[b].device].allocated
HasLiveOwner(b) == OwnersOf(b) # {} \/ inner[b].phase = "dropping"

C3_ValidIffOwned == \A b \in Blocks : HandleValid(b) <=> HasLiveOwner(b)

C3_Witness ==
    \E b, c \in Blocks :
        /\ HandleValid(b) /\ OwnersOf(b) # {}
        /\ Built(c) /\ ~HandleValid(c) /\ OwnersOf(c) = {}

\* C4: Freed is terminal.  Every Device.map, Device.unmap and Device.free call
\* is made with the handle of a block that has not been freed, which its
\* Device still holds allocated; a freed block stays freed and ownerless.
CallOnLiveBlock(c) ==
    \E b \in Blocks :
        /\ inner[b].phase \in {"alive", "dropping"}
        /\ freed[b] = 0
        /\ c.dev = inner[b].device
        /\ c.handle = inner[b].handle
        /\ c.handle \in dev[c.dev].allocated

C4_Step ==
    /\ \A i \in 1..Len(issued') :
          issued'[i].op \in {"map", "unmap", "free"} => CallOnLiveBlock(issued'[i])
    /\ \A b \in Blocks :
          freed[b] >= 1 => /\ freed'[b] = freed[b]
                           /\ inner'[b].phase \in {"freed", "gone"}
                           /\ OwnersOf(b)' = {}

C4_FreedIsTerminal == [][C4_Step]_vars

C4_Witness ==
    \E b \in Blocks :
        /\ inner[b].phase = "gone"
        /\ Len(issued) = 1
        /\ issued[1].op = "map"
        /\ issued[1].handle = inner[b].handle

\* the operation just finished, read from ret
RetBlock == BlockOf(ret.own)
UnmapReturned == ret.op = "unmap"
UnmapArg == ret.args[2]                \* the mapping passed to unmap
MapReturnedView == ret.op = "map" /\ ret.val = "MemoryMapping"
MapOffset == ret.args[1]
MapSize == ret.args[2]
MapFlags == ret.args[3]
MapElem == ret.args[4]
MapView == view[ret.args[5]]           \* the view map returned

\* C5: unmap on a block with a view whose origin handle differs from the
\* block's handle panics, issues no Device call and leaves the Devices'
\* allocation and mapping state as it was.
C5_Step ==
    (UnmapReturned' /\ UnmapArg'.mem_handle # inner[RetBlock'].handle)
    => /\ ret'.val = "panic"
       /\ panicked' # panicked
       /\ issued' = <<>>
       /\ dev' = dev
       /\ inner' = inner

C5_MismatchAborts == [][C5_Step]_vars

C5_Witness ==
    /\ UnmapReturned
    /\ ret.val = "panic"
    /\ \E b \in Blocks :
          /\ b # RetBlock
          /\ inner[b].phase = "alive"
          /\ inner[RetBlock].phase = "alive"
          /\ inner[b].handle = UnmapArg.mem_handle
          /\ inner[b].handle \in dev[inner[b].device].mapped

\* C6: whenever unmap completes without panicking, the view was produced by
\* map on the same block (the same Arc<Inner>) as the one unmap is called on.
C6_UnmapOnlyOnOrigin ==
    (UnmapReturned /\ ret.val = "unit") => BlockOf(UnmapArg.borrow) = RetBlock

\* C7: unmap on a block whose handle equals the view's origin handle issues
\* exactly one Device.unmap call, on the block's Device with the block's
\* handle, does not panic, and the view no longer exists afterwards.
C7_Step ==
    (UnmapReturned' /\ UnmapArg'.mem_handle = inner[RetBlock'].handle)
    => /\ issued' = <<Call("unmap", inner[RetBlock'].device,
                           inner[RetBlock'].handle, 0, 0, 0, TRUE)>>
       /\ ret'.val = "unit"
       /\ panicked' = panicked
       /\ IsView(ret'.args[1])
       /\ view'[ret'.args[1]] = NoView
       /\ LiveViews' = LiveViews \ {ret'.args[1]}

C7_MatchingUnmap == [][C7_Step]_vars

C7_Witness ==
    /\ UnmapReturned
    /\ ret.val = "unit"
    /\ Len(issued) = 1
    /\ issued[1].op = "unmap"
    /\ LiveViews = {}

\* C8: every successful map(offset, N, flags) with element size s > 0 yields a
\* view of length floor(N / s).
C8_LenIsFloor == MapReturnedView => MapView.len = MapSize \div MapElem

\* C9: a successful map issues exactly one Device.map call, on the block's
\* Device with the block's handle and the caller's offset, size and flags,
\* and the view it returns carries the block's handle as its origin.
C9_MapForwards ==
    MapReturnedView
    => /\ issued = <<Call("map", inner[RetBlock].device, inner[RetBlock].handle,
                          MapOffset, MapSize, MapFlags, TRUE)>>
       /\ MapView # NoView
       /\ MapView.mem_handle = inner[RetBlock].handle
       /\ BlockOf(MapView.borrow) = RetBlock

C9_Witness ==
    /\ MapReturnedView
    /\ MapOffset # 0
    /\ MapFlags # 0
    /\ MapSize = U64Mod - 1
    /\ MapView.mem_handle \in Handles

\* C10: when Device.map fails, map returns a MapError, no view is produced,
\* the failed call is the only Device call of the operation, and the blocks
\* (handle, owner count, size, type index) and their owners are unchanged.
MapFailed == ret'.op = "map" /\ \E i \in 1..Len(issued') : ~issued'[i].ok

C10_Step ==
    MapFailed => /\ ret'.val = "MapError"
                 /\ Len(issued') = 1
                 /\ issued'[1].op = "map"
                 /\ view' = view
                 /\ inner' = inner
                 /\ owner' = owner
                 /\ dev' = dev

C10_MapErrorSurfaced == [][C10_Step]_vars

C10_Witness ==
    /\ ret.op = "map"
    /\ ret.val = "MapError"
    /\ Len(issued) = 1
    /\ ~issued[1].ok
    /\ inner[RetBlock].phase = "alive"

\* build just finished, read from ret
BuildReturned == ret.op = "build"
Setters == {"allocation_size", "memory_type_index"}

\* C11: every build, succeeding or failing, issues exactly one Device call,
\* an allocate carrying the builder's current allocation_size and
\* memory_type_index; no other operation issues an allocate.
C11_OneAllocatePerBuild ==
    /\ BuildReturned
       => /\ Len(issued) = 1
          /\ issued[1].op = "allocate"
          /\ issued[1].a = builder.allocation_size
          /\ issued[1].b = builder.memory_type_index
          /\ issued[1].ok <=> ret.val = "DeviceMemory"
    /\ \A i \in 1..Len(issued) : issued[i].op = "allocate" => BuildReturned

C11_Witness ==
    /\ BuildReturned
    /\ ret.val = "AllocationError"
    /\ issued[1].a = 8
    /\ issued[1].b = 1

\* C12: when Device.allocate fails, build returns an AllocationError with the
\* reason the Device gave, the failed allocate is the only Device call (no
\* retry, no free), and no block or owner is created or changed.
BuildFailed == ret'.op = "build" /\ \E i \in 1..Len(issued') : ~issued'[i].ok

C12_Step ==
    BuildFailed => /\ ret'.val = "AllocationError"
                   /\ Len(issued') = 1
                   /\ issued'[1].op = "allocate"
                   /\ ret'.args = <<issued'[1].reason>>
                   /\ inner' = inner
                   /\ owner' = owner
                   /\ freed' = freed
                   /\ dev' = dev
                   /\ pc' = pc

C12_BuildErrorSurfaced == [][C12_Step]_vars

C12_Witness ==
    /\ BuildReturned
    /\ ret.val = "AllocationError"
    /\ ret.args = <<"TooManyObjects">>
    /\ \E b \in Blocks : inner[b].phase = "alive"

\* C13 as stated: every build with allocation size > 0 and a valid
\* memory_type_index succeeds, with a handle other than the null handle.
C13_BuildSucceeds ==
    (BuildReturned /\ builder.allocation_size > 0
                   /\ builder.memory_type_index \in TypeIndexes)
    => (ret.val = "DeviceMemory" /\ inner[RetBlock].handle # NullHandle)

\* C13, amended: build succeeds exactly when Device.allocate succeeds; the
\* block it then returns carries the handle the Device answered, which is not
\* the null handle, and handle() answers that handle.
C13_BuildSucceedsWithDevice ==
    /\ BuildReturned
       => /\ ret.val = "DeviceMemory" <=> issued[1].ok
          /\ ret.val = "DeviceMemory"
             => /\ IsOwner(ret.own)
                /\ inner[RetBlock].handle = issued[1].handle
                /\ inner[RetBlock].handle # NullHandle
    /\ ret.op = "handle"
       => /\ ret.args = <<inner[RetBlock].handle>>
          /\ ret.args[1] # NullHandle

C13_Witness ==
    /\ ret.op = "handle"
    /\ ret.args[1] \in Handles
    /\ inner[RetBlock].allocation_size > 0
    /\ inner[RetBlock].memory_type_index = 1

\* C14: builder() answers a builder whose allocation_size and
\* memory_type_index are zero, and a build on such a builder passes size zero
\* and index zero to Device.allocate; the outcome of the build is the
\* Device's answer, the core rejects nothing.
C14_Step ==
    /\ ret'.op = "builder"
       => builder' = [allocation_size |-> 0, memory_type_index |-> 0]
    /\ (ret.op = "builder" /\ ret'.op = "build")
       => /\ Len(issued') = 1
          /\ issued'[1].op = "allocate"
          /\ issued'[1].a = 0
          /\ issued'[1].b = 0
          /\ ret'.val = IF issued'[1].ok THEN "DeviceMemory" ELSE "AllocationError"

C14_FreshBuilderIsZero == [][C14_Step]_vars

C14_Witness ==
    /\ BuildReturned
    /\ ret.val = "DeviceMemory"
    /\ issued[1].a = 0
    /\ issued[1].b = 0
    /\ inner[RetBlock].allocation_size = 0
    /\ \E b \in Blocks : inner[b].allocation_size = 8

\* C15 as stated: once build has been called on a builder, no setter and no
\* further build is applied to that builder.
C15_BuildConsumes == [][built => ret'.op \notin Setters \cup {"build"}]_vars

\* C15, amended: build borrows the builder; it leaves the allocation request
\* as it was, and a builder that has been built can still be changed by the
\* setters and built again, each build passing the values current at its call.
C15_Step ==
    /\ ret'.op = "build"
       => /\ builder' = builder
          /\ built'
          /\ issued'[1].a = builder.allocation_size
          /\ issued'[1].b = builder.memory_type_index
    /\ (built /\ ret'.op \in Setters) => built'

C15_BuildBorrows == [][C15_Step]_vars

C15_Witness ==
    /\ built
    /\ ret.op = "allocation_size"
    /\ builder.allocation_size = 8
    /\ \E b \in Blocks : inner[b].phase = "alive" /\ inner[b].allocation_size = 0

\* C16: each block holds one strong Device reference from its build until
\* its fields are dropped, after its free call; so a Device is torn down (its
\* last reference released) only when Device.free has been invoked for every
\* block built from it, also when the caller has dropped its own reference.
BlocksHoldingDevice(d) ==
    {b \in Blocks : inner[b].device = d
                    /\ inner[b].phase \in {"alive", "dropping", "freed"}}

C16_DeviceOutlivesBlocks ==
    \A d \in Devices :
        /\ dev[d].refs = (IF callerDev[d] THEN 1 ELSE 0)
                          + Cardinality(BlocksHoldingDevice(d))
        /\ dev[d].torn <=> dev[d].refs = 0
        /\ dev[d].torn
           => \A b \in Blocks :
                 (Built(b) /\ inner[b].device = d)
                 => freed[b] = 1 /\ inner[b].phase = "gone"

C16_Witness ==
    \E d \in Devices, b \in Blocks :
        /\ ~callerDev[d]
        /\ ~dev[d].torn
        /\ inner[b].device = d
        /\ inner[b].phase = "freed"
        /\ freed[b] = 1

\* C17: a Device.free call is issued only by a drop, for a block whose last
\* owner has been released; a Device.allocate call only by build; clone, map,
\* unmap, map_to_ptr, unmap_ptr, handle() and device() issue neither.
NonFinalizing ==
    {"clone", "map", "unmap", "map_to_ptr", "unmap_ptr", "handle", "device"}

C17_SoleFinalizationPath ==
    /\ \A i \in 1..Len(issued) :
          /\ issued[i].op = "allocate" => ret.op = "build"
          /\ issued[i].op = "free"
             => /\ ret.op = "drop"
                /\ \E b \in Blocks :
                      /\ inner[b].phase = "freed"
                      /\ inner[b].strong = 0
                      /\ OwnersOf(b) = {}
                      /\ issued[i].handle = inner[b].handle
                      /\ issued[i].dev = inner[b].device
    /\ ret.op \in NonFinalizing
       => \A i \in 1..Len(issued) : issued[i].op \notin {"allocate", "free"}

C17_Witness ==
    /\ ret.op = "unmap_ptr"
    /\ Len(issued) = 1
    /\ \E b \in Blocks : inner[b].phase = "gone" /\ freed[b] = 1
    /\ \E o \in OwnerIds : IsOwner(o) /\ freed[BlockOf(o)] = 0

\* C18: when the Device fails the free call of a last-owner release, the drop
\* neither reports nor panics, the block is freed all the same, the failed
\* call is the only free call ever made for the block, and the drop of the
\* block's fields then releases its Device reference.
FreeFailed ==
    \E i \in 1..Len(issued') : issued'[i].op = "free" /\ ~issued'[i].ok

C18_Step ==
    /\ FreeFailed
       => /\ Len(issued') = 1
          /\ ret'.val = "unit"
          /\ panicked' = panicked
          /\ \E t \in Threads :
                /\ pc[t] = "drop_inner"
                /\ pc'[t] = "drop_fields"
                /\ inner'[cur[t]].phase = "freed"
                /\ freed'[cur[t]] = 1
    /\ \A b \in Blocks : freed'[b] <= 1
    /\ \A t \in Threads :
          (pc[t] = "drop_fields" /\ pc'[t] # pc[t])
          => /\ inner'[cur[t]].phase = "gone"
             /\ dev'[inner[cur[t]].device].refs
                   = dev[inner[cur[t]].device].refs - 1
             /\ issued' = <<>>

C18_FreeFailureDiscarded == [][C18_Step]_vars

C18_Witness ==
    \E b \in Blocks :
        /\ inner[b].phase = "gone"
        /\ freed[b] = 1
        /\ inner[b].handle \in dev[inner[b].device].allocated
        /\ \A c \in Blocks \ {b} : inner[c].handle # inner[b].handle
        /\ dev[inner[b].device].refs
              = 1 + Cardinality(BlocksHoldingDevice(inner[b].device))

\* C19: while a view exists, the DeviceMemory it was mapped from is still
\* live, so its block is alive with the view's origin handle, and no
\* Device.free call has been made for it.
C19_NoFreeUnderLiveView ==
    \A v \in ViewIds :
        IsView(v)
        => /\ IsOwner(view[v].borrow)
           /\ inner[BlockOf(view[v].borrow)].phase = "alive"
           /\ freed[BlockOf(view[v].borrow)] = 0
           /\ inner[BlockOf(view[v].borrow)].handle = view[v].mem_handle
           /\ view[v].mem_handle
                 \in dev[inner[BlockOf(view[v].borrow)].device].allocated

C19_Witness ==
    \E v \in ViewIds :
        /\ IsView(v)
        /\ ret.op = "drop"
        /\ Cardinality(OwnersOf(BlockOf(view[v].borrow))) = 1
        /\ \E b \in Blocks : inner[b].phase = "gone"

\* C20: every view that exists refers to a region that is mapped at the
\* Device: no Device.unmap has been issued for its origin handle since the
\* view was created.
C20_ViewIsMapped ==
    \A v \in ViewIds :
        IsView(v)
        => view[v].mem_handle
              \in dev[inner[BlockOf(view[v].borrow)].device].mapped

\* C21: a map on a block that already has a live view is forwarded to the
\* Device like any other: exactly one Device.map call with the block's handle
\* and the caller's range, the outcome being the Device's answer; the views
\* alive at once are not limited to one per block.
OtherViewsOf(b, v) ==
    {w \in ViewIds \ {v} : IsView(w) /\ BlockOf(view[w].borrow) = b}

C21_SecondMapForwarded ==
    (ret.op = "map" /\ OtherViewsOf(RetBlock, ret.args[5]) # {})
    => /\ issued = <<Call("map", inner[RetBlock].device, inner[RetBlock].handle,
                          MapOffset, MapSize, MapFlags, ret.val # "MapError")>>
       /\ ret.val = "MemoryMapping"
          => /\ MapView.mem_handle = inner[RetBlock].handle
             /\ inner[RetBlock].handle \in dev[inner[RetBlock].device].mapped

C21_Witness ==
    \E v, w \in ViewIds :
        /\ v # w
        /\ IsView(v) /\ IsView(w)
        /\ BlockOf(view[v].borrow) = BlockOf(view[w].borrow)
        /\ view[v].ptr = view[w].ptr
        /\ view[v].borrow # view[w].borrow
        /\ MapReturnedView

\* C22: a map or map_to_ptr whose range ends beyond the block's
\* allocation_size is forwarded to the Device unchanged, as one Device.map
\* call, and its outcome is the Device's answer.
PtrLevel == {"map", "map_to_ptr"}
OutOfBounds == MapOffset + MapSize > inner[RetBlock].allocation_size

C22_NoBoundsCheck ==
    (ret.op \in PtrLevel /\ OutOfBounds)
    => issued = <<Call("map", inner[RetBlock].device, inner[RetBlock].handle,
                       MapOffset, MapSize, MapFlags, ret.val # "MapError")>>

C22_Witness ==
    /\ MapReturnedView
    /\ OutOfBounds
    /\ inner[RetBlock].allocation_size = 8
    /\ inner[RetBlock].memory_type_index = 1
    /\ MapView.len = 1

\* C23: handle() on a DeviceMemory and the Handle capability on a reference
\* to it answer the handle of the block, the same for every clone; it is the
\* handle Device.allocate answered at build, and it does not change while the
\* block lives.
HandleOps == {"handle", "Handle::handle"}

C23_Step ==
    /\ \A b \in Blocks :
          inner[b].phase \in {"alive", "dropping"}
          => inner'[b].handle = inner[b].handle
    /\ ret'.op \in HandleOps
       => ret'.args = <<inner[BlockOf(ret'.own)].handle>>
    /\ (ret'.op = "build" /\ ret'.val = "DeviceMemory")
       => inner'[owner'[ret'.own].blk].handle = issued'[1].handle

C23_HandleUniformAndStable == [][C23_Step]_vars

C23_Witness ==
    /\ ret.op = "Handle::handle"
    /\ ret.args = <<2>>
    /\ Cardinality(OwnersOf(RetBlock)) >= 2

C26_Step ==
    /\ ret'.op = "map_to_ptr"
       => /\ issued' = <<Call("map", inner[BlockOf(ret'.own)].device,
                              inner[BlockOf(ret'.own)].handle, ret'.args[1],
                              ret'.args[2], ret'.args[3], ret'.val = "ptr")>>
          /\ view' = view
          /\ panicked' = panicked
    /\ ret'.op = "unmap_ptr"
       => /\ issued' = <<Call("unmap", inner[BlockOf(ret'.own)].device,
                              inner[BlockOf(ret'.own)].handle, 0, 0, 0, TRUE)>>
          /\ view' = view
          /\ panicked' = panicked
          /\ inner' = inner

C26_PtrLevelKeepsNoBooks == [][C26_Step]_vars

C26_Witness ==
    /\ ret.op = "unmap_ptr"
    /\ \E v, w \in ViewIds :
          /\ IsView(v) /\ BlockOf(view[v].borrow) = RetBlock
          /\ IsView(w) /\ BlockOf(view[w].borrow) # RetBlock

\* C27: a block built successfully holds the size, type index, Device and
\* handle of the allocate call of its build, and no later step (clone, map,
\* unmap, release, a change of the builder) changes these fields.
Request(b) ==
    [handle |-> inner[b].handle, device |-> inner[b].device,
     allocation_size |-> inner[b].allocation_size,
     memory_type_index |-> inner[b].memory_type_index]

C27_Step ==
    /\ \A b \in Blocks : Built(b) => Request(b)' = Request(b)
    /\ (ret'.op = "build" /\ ret'.val = "DeviceMemory")
       => /\ inner'[owner'[ret'.own].blk].handle = issued'[1].handle
          /\ inner'[owner'[ret'.own].blk].device = issued'[1].dev
          /\ inner'[owner'[ret'.own].blk].allocation_size = issued'[1].a
          /\ inner'[owner'[ret'.own].blk].memory_type_index = issued'[1].b

C27_BlockRecordsRequest == [][C27_Step]_vars

C27_Witness ==
    /\ UnmapReturned
    /\ inner[RetBlock].allocation_size = 8
    /\ inner[RetBlock].memory_type_index = 1
    /\ builder = DefaultAllocateInfo
    /\ Cardinality(OwnersOf(RetBlock)) = 2

\* C28: allocation_size(b) sets the size to b and keeps the index,
\* memory_type_index(i) sets the index to i and keeps the size; each takes
\* any value, overwrites the value set before, and issues no Device call.
C28_Step ==
    /\ ret'.op = "allocation_size"
       => builder' = [builder EXCEPT !.allocation_size = ret'.args[1]]
    /\ ret'.op = "memory_type_index"
       => builder' = [builder EXCEPT !.memory_type_index = ret'.args[1]]
    /\ ret'.op \in Setters
       => /\ issued' = <<>>
          /\ dev' = dev
          /\ inner' = inner

C28_SettersIndependent == [][C28_Step]_vars

C28_Witness ==
    /\ ret.op = "allocation_size"
    /\ ret.args = <<0>>
    /\ builder = [allocation_size |-> 0, memory_type_index |-> 1]
    /\ built

\* C29: DeviceMemory::new(device, size, index) and a build on a builder
\* holding (size, index) obey the same law: one Device.allocate call with
\* that size and index, then either a block wrapping the answered handle,
\* the Device, the size and the index, or the Device's error.
Requested ==
    IF ret.op = "new"
    THEN [allocation_size |-> ret.args[1], memory_type_index |-> ret.args[2]]
    ELSE builder

C29_NewIsBuilderChain ==
    ret.op \in {"new", "build"}
    => /\ Len(issued) = 1
       /\ issued[1].op = "allocate"
       /\ issued[1].a = Requested.allocation_size
       /\ issued[1].b = Requested.memory_type_index
       /\ issued[1].ok
          => /\ ret.val = "DeviceMemory"
             /\ inner[RetBlock]
                   = NewInner(issued[1].handle, issued[1].dev, Requested)
       /\ ~issued[1].ok
          => /\ ret.val = "AllocationError"
             /\ ret.args[Len(ret.args)] = issued[1].reason

C29_Witness ==
    /\ ret.op = "new"
    /\ ret.val = "DeviceMemory"
    /\ ret.args = <<8, 1>>
    /\ builder = [allocation_size |-> 0, memory_type_index |-> 1]

\* C30: no map, successful or failed, and no unmap changes the owners of any
\* block, its strong count, its phase or the free calls made for it, and
\* none issues a Device.free call.
C30_Step ==
    ret'.op \in {"map", "unmap"}
    => /\ owner' = owner
       /\ \A b \in Blocks : /\ inner'[b].strong = inner[b].strong
                             /\ inner'[b].phase = inner[b].phase
       /\ freed' = freed
       /\ pc' = pc
       /\ \A i \in 1..Len(issued') : issued'[i].op # "free"

C30_MapKeepsOwnership == [][C30_Step]_vars

C30_Witness ==
    /\ UnmapReturned
    /\ ret.val = "unit"
    /\ Cardinality(OwnersOf(RetBlock)) = 2
    /\ \E b \in Blocks : inner[b].phase = "gone"

\* C25: a view of the block, range and element type that were last filled
\* with a pattern reads that pattern in every element, also after the view
\* written through has been unmapped and the range mapped again.
SameRange(mapping) ==
    /\ written.blk = BlockOf(mapping.borrow)
    /\ written.ptr = mapping.ptr
    /\ written.len = mapping.len
    /\ written.elem = mapping.elem

C25_RoundTrip ==
    \A v \in ViewIds :
        (IsView(v) /\ written # NoWrite /\ SameRange(view[v]))
        => Slice(view[v]) = [i \in 1..view[v].len |-> written.value]

C25_Witness ==
    /\ MapReturnedView
    /\ written.unmapped
    /\ SameRange(MapView)
    /\ MapOffset = 2
    /\ Slice(MapView) = <<258, 258>>

\* C31: dropping a view issues no Device call and leaves the Device's
\* mapping state as it was, and the drop of an Inner issues its Device.free
\* call whether or not the Device still has the handle mapped; so a block is
\* freed while mapped once its views were dropped rather than unmapped.
C31_Step ==
    /\ ret'.op = "drop_view"
       => /\ issued' = <<>>
          /\ dev' = dev
          /\ Cardinality(LiveViews') = Cardinality(LiveViews) - 1
    /\ \A t \in Threads :
          (pc[t] = "drop_inner" /\ pc'[t] # pc[t])
          => /\ Len(issued') = 1
             /\ issued'[1].op = "free"
             /\ issued'[1].handle = inner[cur[t]].handle

C31_DroppedViewStaysMapped == [][C31_Step]_vars

C31_Witness ==
    \E t \in Threads :
        /\ pc[t] = "drop_inner"
        /\ inner[cur[t]].handle \in dev[inner[cur[t]].device].mapped
        /\ freed[cur[t]] = 0
        /\ LiveViews = {}
        /\ \E b \in Blocks : inner[b].phase = "gone"

\* C32: unmap called on a clone other than the one the view was mapped from,
\* both owning the same block, does not panic: it issues the one Device.unmap
\* call with the block's handle and consumes the view.
ThroughOtherClone ==
    /\ UnmapReturned
    /\ UnmapArg.borrow # ret.own
    /\ BlockOf(UnmapArg.borrow) = RetBlock

C32_UnmapThroughAnyClone ==
    ThroughOtherClone
    => /\ ret.val = "unit"
       /\ issued = <<Call("unmap", inner[RetBlock].device,
                          inner[RetBlock].handle, 0, 0, 0, TRUE)>>
       /\ view[ret.args[1]] = NoView
       /\ panicked = {}

C32_Witness ==
    /\ ThroughOtherClone
    /\ ret.val = "unit"
    /\ UnmapArg.mem_handle = inner[RetBlock].handle
    /\ Cardinality(OwnersOf(RetBlock)) = 2

\* C34: a map with a zero-sized element type whose Device.map call succeeds
\* has issued that one call, panics, returns neither a view nor a MapError
\* and creates no view, and leaves the block's handle mapped at the Device;
\* when the Device refuses, the MapError is returned before the division.
C34_Step ==
    (ret'.op = "map" /\ ret'.args[4] = 0)
    => /\ Len(issued') = 1
       /\ issued' = <<Call("map", inner[BlockOf(ret'.own)].device,
                           inner[BlockOf(ret'.own)].handle, ret'.args[1],
                           ret'.args[2], ret'.args[3], issued'[1].ok)>>
       /\ view' = view
       /\ inner' = inner
       /\ issued'[1].ok
          => /\ ret'.val = "panic"
             /\ panicked' # panicked
             /\ inner[BlockOf(ret'.own)].handle
                   \in dev'[inner[BlockOf(ret'.own)].device].mapped
       /\ ~issued'[1].ok
          => /\ ret'.val = "MapError"
             /\ panicked' = panicked
             /\ dev' = dev

C34_ZeroSizedMapAborts == [][C34_Step]_vars

C34_Witness ==
    /\ ret.op = "map"
    /\ ret.val = "panic"
    /\ MapElem = 0
    /\ issued[1].ok
    /\ LiveViews = {}
    /\ inner[RetBlock].handle \in dev[inner[RetBlock].device].mapped
    /\ \A b \in Blocks \ {RetBlock} : inner[b].phase = "none"

\* C35: the Device.map call of a map carries size_bytes in full, and the
\* view returned has length floor((size_bytes mod 2^w) / size_of(T)), w being
\* the width of usize; that is floor(size_bytes / size_of(T)) whenever
\* size_bytes < 2^w.
C35_LenFromTruncatedSize ==
    MapReturnedView
    => /\ issued[1].b = MapSize
       /\ MapView.len = (MapSize % (2 ^ wordBits)) \div MapElem
       /\ MapSize < 2 ^ wordBits => MapView.len = MapSize \div MapElem

C35_Witness ==
    /\ MapReturnedView
    /\ wordBits = NarrowBits
    /\ MapSize >= 2 ^ wordBits
    /\ issued[1].b = U64Mod - 1
    /\ MapView.len = 1
    /\ MapView.len # MapSize \div MapElem

\* C36: every block has its own owner count, the number of its owners; a
\* successful build makes a new block with one owner, and neither it nor a
\* clone or release of an owner touches another block; the free call of a
\* block carries that block's handle, is made when that block has no owner
\* left, and leaves every other block, its owners and the validity of its
\* handle as they were.
C36_Step ==
    /\ \A b \in Blocks :
          inner[b].phase = "alive"
          => inner[b].strong = Cardinality(OwnersOf(b))
    /\ (ret'.op = "build" /\ ret'.val = "DeviceMemory")
       => /\ inner[owner'[ret'.own].blk].phase = "none"
          /\ inner'[owner'[ret'.own].blk].strong = 1
          /\ \A c \in Blocks \ {owner'[ret'.own].blk} :
                inner'[c] = inner[c] /\ OwnersOf(c)' = OwnersOf(c)
    /\ \A b \in Blocks :
          (OwnersOf(b)' # OwnersOf(b) \/ freed'[b] # freed[b])
          => \A c \in Blocks \ {b} :
                /\ inner'[c] = inner[c]
                /\ OwnersOf(c)' = OwnersOf(c)
                /\ freed'[c] = freed[c]
                /\ HandleValid(c) => HandleValid(c)'
    /\ \A b \in Blocks :
          freed'[b] # freed[b]
          => /\ OwnersOf(b) = {}
             /\ issued' = <<Call("free", inner[b].device, inner[b].handle,
                                 0, 0, 0, TRUE)>>

C36_BlocksIndependent == [][C36_Step]_vars

C36_Witness ==
    \E b, c \in Blocks :
        /\ b # c
        /\ inner[b].phase = "gone"
        /\ freed[b] = 1
        /\ freed[c] = 0
        /\ ret.op = "clone"
        /\ Cardinality(OwnersOf(c)) = 2
        /\ HandleValid(c)
        /\ inner[b].handle # inner[c].handle
        /\ built
        /\ Request(b).allocation_size = Request(c).allocation_size
        /\ Request(b).memory_type_index = Request(c).memory_type_index

\* C37: the free call of a last-owner release is made while the block still
\* holds its Device reference: the Device has a reference left and is not
\* torn down when the call is made, the call releases none, and the block's
\* reference is released by the step that follows the call.
C37_Step ==
    /\ \A b \in Blocks :
          freed'[b] # freed[b]
          => /\ issued'[1].dev = inner[b].device
             /\ dev[inner[b].device].refs >= 1
             /\ ~dev[inner[b].device].torn
             /\ dev'[inner[b].device].refs = dev[inner[b].device].refs
             /\ ~dev'[inner[b].device].torn
    /\ \A d \in Devices :
          (dev'[d].refs < dev[d].refs /\ callerDev'[d] = callerDev[d])
          => \E t \in Threads :
                /\ pc[t] = "drop_fields"
                /\ inner[cur[t]].device = d
                /\ freed[cur[t]] = 1
                /\ issued' = <<>>

C37_FreeBeforeDeviceRelease == [][C37_Step]_vars

C37_Witness ==
    \E t \in Threads :
        /\ pc[t] = "drop_fields"
        /\ issued = <<FreeCall(cur[t])>>
        /\ ~callerDev[inner[cur[t]].device]
        /\ dev[inner[cur[t]].device].refs = 1
        /\ ~dev[inner[cur[t]].device].torn

\* C38: a view stays as map made it until it is given up: no step changes
\* the pointer, length or origin handle of a view that exists before and
\* after it; the slice read through a view has exactly its length elements,
\* and a write through it changes no byte of any allocation outside the
\* length times size_of(T) bytes at its pointer.
C38_Step ==
    /\ \A v \in ViewIds : (IsView(v) /\ IsView(v)') => view'[v] = view[v]
    /\ \A v \in ViewIds : IsView(v) => DOMAIN Slice(view[v]) = 1..view[v].len
    /\ ret'.op = "write"
       => /\ view' = view
          /\ \A d \in Devices, h \in Handles, a \in MemBytes :
                dev'[d].memory[h][a] # dev[d].memory[h][a]
                => /\ d = inner[BlockOf(view[ret'.args[1]].borrow)].device
                   /\ h = view[ret'.args[1]].mem_handle
                   /\ a >= view[ret'.args[1]].ptr - 1
                   /\ a < view[ret'.args[1]].ptr - 1
                            + view[ret'.args[1]].len * view[ret'.args[1]].elem

C38_ViewIsFixed == [][C38_Step]_vars

C38_Witness ==
    /\ ret.op = "write"
    /\ IsView(ret.args[1])
    /\ view[ret.args[1]].ptr = DevicePtr(0)
    /\ view[ret.args[1]].len = 2
    /\ Slice(view[ret.args[1]]) = <<1, 1>>
    /\ ViewMemory(view[ret.args[1]])[4] = 2
    /\ ViewMemory(view[ret.args[1]])[5] = 1

\* C33: with map and unmap as the only mapping operations used, the number
\* of Device.unmap calls issued for a block never exceeds the number of
\* successful Device.map calls issued for it.
C33_UnmapsWithinMaps ==
    calls.on => \A b \in Blocks : calls.unmap[b] <= calls.map[b]

====
